---- MODULE Spec2Model ----
(***************************************************************************)
(* Federated cloud-storage backend: the ExternalAccount store, the token   *)
(* lifecycle of the three providers (Dropbox, OneDrive, Google Drive) and  *)
(* the federated search of SearchService.search_all_providers.             *)
(*                                                                         *)
(* Python values: None of a string field is the string "None"; None of a   *)
(* timestamp is NoExpiry.  The clock `now` is datetime.utcnow() counted in *)
(* hours.                                                                  *)
(***************************************************************************)
EXTENDS Integers, Sequences, FiniteSets, TLC

\* ---------------------------------------------------------------- bounds
MaxTime == 2
MaxCalls == 2
MaxPages == 2
MaxConnects == 2
MaxListPages == 3
MaxWalkRequests == 3

\* ------------------------------------------------------- program constants
DropboxDefaultExpiresIn == 4
GoogleDefaultExpiresIn == 1

\* ------------------------------------------------------------ Python values
None == "None"
NoExpiry == -1
NoValue == -1

Falsy(x) == x = None \/ x = ""

Providers == {"dropbox", "one_drive", "google_drive"}

Users == {"u1"}

VARIABLES
    accounts,   \* the ExternalAccount table: a sequence of rows, in insertion order
    now,        \* datetime.utcnow(), in hours
    call,       \* the operation currently inside _ensure_valid_token, outside a search
    hist,       \* the completed _ensure_valid_token calls of `call`, oldest first
    req,        \* the search_all_providers request
    leg,        \* the three provider legs of the request
    result,     \* what search_all_providers returned
    conn,       \* the connect operations: how many were called, which await an answer
    listing,    \* the file listing operation: where it is and what it has gathered
    race,       \* two requests inside _ensure_valid_token on the same account
    chat        \* the chat completion endpoint and the request it serves

vars == <<accounts, now, call, hist, req, leg, result, conn, listing, race, chat>>

\* ----------------------------------------------------------- the account store

NoAccount ==
    [id |-> 0, user_id |-> None, provider |-> None, provider_account_id |-> None,
     access_token |-> None, refresh_token |-> None, expires_at |-> NoExpiry,
     extra_data |-> None, updated_at |-> 0]

\* select(ExternalAccount).where(user_id == u, provider == p): the matching rows
Matching(store, u, p) ==
    {i \in 1..Len(store) : store[i].user_id = u /\ store[i].provider = p}

\* .first() of that select: the row, or NoAccount when there is none
GetAccount(store, u, p) ==
    IF Matching(store, u, p) = {} THEN NoAccount
    ELSE store[CHOOSE i \in Matching(store, u, p) :
                   \A j \in Matching(store, u, p) : i <= j]

\* the commit reaches every row of the object's provider
CommitColumnsOfProvider(store, obj, cols) ==
    [i \in 1..Len(store) |->
        IF store[i].provider = obj.provider
        THEN [f \in DOMAIN store[i] |-> IF f \in cols THEN obj[f] ELSE store[i][f]]
        ELSE store[i]]

\* session.add(account); session.commit(): the columns in `cols` of the row
\* with the object's primary key take the object's values
CommitColumns(store, obj, cols) ==
    [i \in 1..Len(store) |->
        IF store[i].id = obj.id
        THEN [f \in DOMAIN store[i] |-> IF f \in cols THEN obj[f] ELSE store[i][f]]
        ELSE store[i]]

RowById(store, id) ==
    IF \E i \in 1..Len(store) : store[i].id = id
    THEN store[CHOOSE i \in 1..Len(store) : store[i].id = id]
    ELSE NoAccount

\* ------------------------------------------------------------ token lifecycle

Return(v) == [kind |-> "return", value |-> v]
Raise(msg) == [kind |-> "raise", value |-> msg]
Refresh == [kind |-> "refresh", value |-> ""]

TokenValid(acc, t) == acc.expires_at # NoExpiry /\ acc.expires_at > t

\* the expiry is not looked at: a refresh whenever there is a refresh token
DropboxEnsureAlwaysRefresh(acc, t) ==
    IF Falsy(acc.refresh_token) THEN Raise("No refresh token available") ELSE Refresh

\* DropboxService._ensure_valid_token, up to the call of refresh_dropbox_token
DropboxEnsureValidToken(acc, t) ==
    IF TokenValid(acc, t)
    THEN Return(IF Falsy(acc.access_token) THEN "" ELSE acc.access_token)
    ELSE IF Falsy(acc.refresh_token) THEN Raise("No refresh token available")
    ELSE Refresh

\* OneDriveService._ensure_valid_token: there is no refresh
OneDriveEnsureValidToken(acc, t) ==
    IF TokenValid(acc, t)
    THEN Return(IF Falsy(acc.access_token) THEN "" ELSE acc.access_token)
    ELSE IF Falsy(acc.refresh_token) THEN Raise("No refresh token available")
    ELSE IF Falsy(acc.access_token) THEN Raise("No access token available")
    ELSE Return(acc.access_token)

\* the tail of IntegrationService._ensure_valid_token
GoogleReturnToken(acc) ==
    IF Falsy(acc.access_token) THEN Raise("No access token available")
    ELSE Return(acc.access_token)

\* the expiry is not looked at: the stored token is returned
GoogleEnsureIgnoresExpiry(acc, t) == GoogleReturnToken(acc)

\* IntegrationService._ensure_valid_token, up to the call of refresh_google_drive_token
GoogleEnsureValidToken(acc, t) ==
    IF acc.expires_at # NoExpiry /\ acc.expires_at <= t
    THEN IF ~Falsy(acc.refresh_token) THEN Refresh
         ELSE Raise("Access token expired and no refresh token available")
    ELSE GoogleReturnToken(acc)

EnsureValidToken(p, acc, t) ==
    CASE p = "dropbox" -> DropboxEnsureValidToken(acc, t)
      [] p = "one_drive" -> OneDriveEnsureValidToken(acc, t)
      [] p = "google_drive" -> GoogleEnsureValidToken(acc, t)

TokenResponse(st, at, ex, rt) ==
    [status |-> st, access_token |-> at, expires_in |-> ex, refresh_token |-> rt]

\* the answers of a provider's OAuth2 token endpoint to grant_type=refresh_token:
\* a new access token, with or without expires_in and a rotated refresh token; a
\* 200 answer that carries no access_token; a refusal; and, as status 0, no
\* answer at all: the request raised
TokenResponses ==
    {TokenResponse(200, "n1", NoValue, None), TokenResponse(200, "n1", 2, "r2"),
     TokenResponse(200, None, NoValue, None), TokenResponse(400, None, NoValue, None),
     TokenResponse(0, None, NoValue, None)}

\* refresh_dropbox_token after a 200 answer: the account object as updated
DropboxRefreshed(acc, resp, t) ==
    [acc EXCEPT
        !.access_token = resp.access_token,
        !.refresh_token = IF Falsy(resp.refresh_token) THEN acc.refresh_token
                          ELSE resp.refresh_token,
        !.expires_at = t + (IF resp.expires_in = NoValue THEN DropboxDefaultExpiresIn
                            ELSE resp.expires_in),
        !.updated_at = t]

\* refresh_google_drive_token after a 200 answer: the account object as updated
GoogleRefreshed(acc, resp, t) ==
    [acc EXCEPT
        !.access_token = resp.access_token,
        !.expires_at = t + (IF resp.expires_in = NoValue THEN GoogleDefaultExpiresIn
                            ELSE resp.expires_in),
        !.updated_at = t]

Refreshed(p, acc, resp, t) ==
    IF p = "dropbox" THEN DropboxRefreshed(acc, resp, t) ELSE GoogleRefreshed(acc, resp, t)

\* the refresh forgets to assign the new expiry
RefreshColumnsWithoutExpiry(p) == {"access_token", "updated_at"}

\* the columns the refresh assigns on the account object before the commit
RefreshColumns(p) ==
    IF p = "dropbox" THEN {"access_token", "refresh_token", "expires_at", "updated_at"}
    ELSE {"access_token", "expires_at", "updated_at"}

\* the commit is dropped when the row is no longer what the request read
RefreshStoreIfUnchanged(store, p, acc, resp, t) ==
    IF resp.status = 200 /\ RowById(store, acc.id) = acc
    THEN CommitColumns(store, Refreshed(p, acc, resp, t), RefreshColumns(p))
    ELSE store

\* the refresh commits whatever the endpoint answered
RefreshStoreOnAnyAnswer(store, p, acc, resp, t) ==
    CommitColumns(store, Refreshed(p, acc, resp, t), RefreshColumns(p))

\* the store after the refresh: unchanged unless the endpoint answered 200
RefreshStore(store, p, acc, resp, t) ==
    IF resp.status = 200
    THEN CommitColumns(store, Refreshed(p, acc, resp, t), RefreshColumns(p))
    ELSE store

\* what _ensure_valid_token gives its caller once the refresh has answered
AfterRefresh(p, acc, resp, t) ==
    IF resp.status = 0 /\ p # "dropbox" THEN Raise("token request failed")
    ELSE IF resp.status # 200 THEN Raise("Failed to refresh token")
    ELSE IF p = "dropbox"
         THEN IF Falsy(resp.access_token)
              THEN Raise("No access token available after refresh")
              ELSE Return(resp.access_token)
         ELSE GoogleReturnToken(Refreshed(p, acc, resp, t))


\* ------------------------------------------------------------ the search query

Whitespace == {" "}

RECURSIVE LStrip(_)
LStrip(q) == IF q # <<>> /\ Head(q) \in Whitespace THEN LStrip(Tail(q)) ELSE q

RECURSIVE RStrip(_)
RStrip(q) ==
    IF q # <<>> /\ q[Len(q)] \in Whitespace THEN RStrip(SubSeq(q, 1, Len(q) - 1)) ELSE q

\* str.strip()
Strip(q) == RStrip(LStrip(q))

LowerChar(c) == IF c = "A" THEN "a" ELSE c

\* str.lower()
Lower(q) == [i \in 1..Len(q) |-> LowerChar(q[i])]

\* the emptiness test without the strip
BlankQueryUnstripped(q) == q = <<>>

\* `not search_query or not search_query.strip()`
BlankQuery(q) == q = <<>> \/ Strip(q) = <<>>

\* the queries a caller sends
Queries == {<<>>, <<" ", " ">>, <<" ", "A", " ">>}

\* ------------------------------------------------------------ search outcomes

NoOutcome == [files |-> <<>>, total |-> -1, error |-> None]

EmptyOutcome == [files |-> <<>>, total |-> 0, error |-> None]

\* the except branch of _search_dropbox, _search_one_drive, _search_google_drive
ErrorOutcome(msg) == [files |-> <<>>, total |-> 0, error |-> msg]

\* `file["provider"] = p; file["match_type"] = "both"` over the matching files
Tagged(files, p) ==
    [i \in 1..Len(files) |-> [files[i] EXCEPT !.provider = p, !.match_type = "both"]]

\* the return of the try branch of a _search_<provider>
FilesOutcome(files, p) ==
    [files |-> Tagged(files, p), total |-> Len(files), error |-> None]

\* the sum leaves a provider out
TotalFilesWithoutOneDrive(d, o, g) == d.total + g.total

\* `total_files = dropbox.get("total", 0) + one_drive.get("total", 0) + ...`
TotalFiles(d, o, g) == d.total + o.total + g.total

\* the outcomes land in the slots in another order than the coroutines were passed
AssembleShifted(q, d, o, g) ==
    [query |-> q,
     results |-> [dropbox |-> d, one_drive |-> g, google_drive |-> o],
     total_files |-> TotalFiles(d, o, g)]

\* the dict search_all_providers returns after the gather
Assemble(q, d, o, g) ==
    [query |-> q,
     results |-> [dropbox |-> d, one_drive |-> o, google_drive |-> g],
     total_files |-> TotalFiles(d, o, g)]

\* the dict search_all_providers returns for an empty query
EmptyResult(q) ==
    [query |-> q,
     results |-> [dropbox |-> EmptyOutcome, one_drive |-> EmptyOutcome,
                  google_drive |-> EmptyOutcome],
     total_files |-> 0]

NoResult ==
    [query |-> <<>>,
     results |-> [dropbox |-> NoOutcome, one_drive |-> NoOutcome,
                  google_drive |-> NoOutcome],
     total_files |-> -1]


\* ------------------------------------------------------------------- Init

NewRow(id, u, p, at, rt, ex) ==
    [id |-> id, user_id |-> u, provider |-> p, provider_account_id |-> "pid",
     access_token |-> at, refresh_token |-> rt, expires_at |-> ex,
     extra_data |-> "info", updated_at |-> 0]

\* the rows the connect operations leave for one (user, provider): the
\* connect_*_with_tokens calls store a non-empty access token, a refresh token or
\* none and any expiry or none; connect_account stores no expiry and any tokens
ConnectedRows(id, u, p) ==
    {NewRow(id, u, p, "a1", rt, ex) : rt \in {None, "r1"}, ex \in {NoExpiry, 1, 2}}
    \cup {NewRow(id, u, p, None, rt, NoExpiry) : rt \in {None, "r1"}}

\* the rows the searches of Spec start from: a token still valid, or expired
\* with or without a refresh token (connect_one_drive_with_tokens stores none)
SearchRows(id, u, p) ==
    IF p = "one_drive"
    THEN {NewRow(id, u, p, "a1", None, 2), NewRow(id, u, p, "a1", None, 1)}
    ELSE {NewRow(id, u, p, "a1", "r1", 2), NewRow(id, u, p, "a1", "r1", 1),
          NewRow(id, u, p, "a1", None, 1)}

IsRow(r) == r.id # 0

IdleCall == [pc |-> "idle", provider |-> None, acc |-> NoAccount]

NoResponse ==
    [status |-> 0, access_token |-> None, expires_in |-> NoValue, refresh_token |-> None]

NoReturn == [kind |-> "none", files |-> <<>>, msg |-> None]

NewLeg ==
    [pc |-> "new", acc |-> NoAccount, files |-> <<>>, pages |-> 0, calls |-> <<>>,
     ret |-> NoReturn, out |-> NoOutcome]

IdleReq ==
    [pc |-> "idle", query |-> <<>>, lowered |-> <<>>, content |-> TRUE, effects |-> {}]

NoListing ==
    [pc |-> "idle", op |-> None, phase |-> None, todo |-> <<>>,
     cur |-> [id |-> None, type |-> None], lookup |-> None, client |-> None,
     files |-> <<>>, served |-> <<>>, clients |-> <<>>, continues |-> 0,
     stack |-> <<>>, requests |-> 0, acc |-> NoAccount, entries |-> <<>>,
     total_files |-> 0, log |-> None, ret |-> NoReturn, response |-> None]

NoConnects ==
    [called |-> 0, pending |-> <<>>,
     last |-> [op |-> None, provider |-> None, user_id |-> None, access_token |-> None,
               refresh_token |-> None, expires_at |-> NoExpiry, info |-> None,
               kind |-> "none", value |-> None, row |-> 0]]

\* the two requests that meet on one account: where each is in its
\* _ensure_valid_token, the account object it read, and the call as it ended;
\* `commits` are the requests whose refresh was committed, in commit order
RaceRequests == {1, 2}

NoCall ==
    [provider |-> None, pre |-> NoAccount, post |-> NoAccount, refreshCalls |-> 0,
     resp |-> NoResponse, kind |-> "none", value |-> None, t |-> 0]

NoRace ==
    [reqs |-> [i \in RaceRequests |-> [pc |-> "new", acc |-> NoAccount, ended |-> NoCall]],
     commits |-> <<>>]

\* the chat completion endpoint before a request: whether OPENROUTER_API_KEY
\* is set, the requests sent so far, how the OpenRouter attempt ended, the
\* model asked of Ollama and the status of the response
NoChat ==
    [pc |-> "idle", key |-> TRUE, model |-> None, log |-> <<>>, openrouter |-> None,
     ollama_model |-> None, status |-> NoValue, served_by |-> None]

Quiet ==
    /\ now = 1
    /\ call = IdleCall
    /\ hist = <<>>
    /\ req = IdleReq
    /\ leg = [p \in Providers |-> NewLeg]
    /\ result = NoResult
    /\ conn = NoConnects
    /\ listing = NoListing
    /\ race = NoRace
    /\ chat = NoChat

\* user u1 has connected any of the three providers
Init ==
    /\ \E d \in SearchRows(1, "u1", "dropbox") \cup {NoAccount},
          o \in SearchRows(2, "u1", "one_drive") \cup {NoAccount},
          g \in {NewRow(3, "u1", "google_drive", "a1", "r1", 2), NoAccount} :
            accounts = SelectSeq(<<d, o, g>>, IsRow)
    /\ Quiet

\* user u1 has connected one provider, in any of the ways there are
InitToken ==
    /\ \E p \in Providers : \E r \in ConnectedRows(1, "u1", p) : accounts = <<r>>
    /\ Quiet

\* time passes
Tick ==
    /\ now < MaxTime
    /\ now' = now + 1
    /\ UNCHANGED <<chat, race, listing, conn, accounts, call, hist, req, leg, result>>

\* ------------------------------------------------- calls of _ensure_valid_token

\* one finished call of _ensure_valid_token: the account object it was given,
\* the stored row when it ended, the refresh requests it sent, the answer to
\* them, and what it returned or raised, at time t
CallEntry(p, pre, post, n, resp, out, t) ==
    [provider |-> p, pre |-> pre, post |-> post, refreshCalls |-> n, resp |-> resp,
     kind |-> out.kind, value |-> out.value, t |-> t]

\* a call that ended without a refresh
PlainCall(store, p, acc, t) ==
    CallEntry(p, acc, RowById(store, acc.id), 0, NoResponse, EnsureValidToken(p, acc, t), t)

\* a call that ended after the token endpoint answered resp
RefreshCall(store, p, acc, resp, t) ==
    CallEntry(p, acc, RowById(RefreshStore(store, p, acc, resp, t), acc.id), 1, resp,
              AfterRefresh(p, acc, resp, t), t)

\* an operation of provider p outside the search (get_all_namespaces,
\* get_all_tenants, list_google_drive_files) has read the account and calls
\* _ensure_valid_token; requests are taken one at a time, the search last
EnsureCallBegin(p) ==
    /\ call.pc = "idle"
    /\ req.pc = "idle"
    /\ Len(hist) < MaxCalls
    /\ IsRow(GetAccount(accounts, "u1", p))
    /\ LET acc == GetAccount(accounts, "u1", p)
       IN IF EnsureValidToken(p, acc, now).kind = "refresh"
          THEN /\ call' = [pc |-> "refresh", provider |-> p, acc |-> acc]
               /\ hist' = hist
          ELSE /\ call' = IdleCall
               /\ hist' = Append(hist, PlainCall(accounts, p, acc, now))
    /\ UNCHANGED <<chat, race, listing, conn, accounts, now, req, leg, result>>

\* the token endpoint answers the refresh of that call
EnsureCallRefreshed(resp) ==
    /\ call.pc = "refresh"
    /\ accounts' = RefreshStore(accounts, call.provider, call.acc, resp, now)
    /\ hist' = Append(hist, RefreshCall(accounts, call.provider, call.acc, resp, now))
    /\ call' = IdleCall
    /\ UNCHANGED <<chat, race, listing, conn, now, req, leg, result>>

\* ------------------------------------------------- search_all_providers

\* a file record as a service's search_files builds it
FileRecord(id, tag) == [id |-> id, provider |-> tag, match_type |-> None]

\* the items of one page of a provider's search answer: for each item, whether
\* its name contains the query
PageItems == {<<>>, <<TRUE>>, <<FALSE>>}

\* the items fetch_search keeps: all of them when searching in content, else
\* those whose name contains the query
Kept(items, content) == SelectSeq(items, LAMBDA hit : content \/ hit)

\* the records appended to `files` for the n kept items of a page
Extended(files, n, tag) ==
    files \o [i \in 1..n |-> FileRecord(Len(files) + i, tag)]

\* search_files (search_google_drive_files) of a service returns the files
Files(files) == [kind |-> "files", files |-> files, msg |-> None]

\* the ApiError is logged and what was found is returned
ApiErrorKeepingFound(found, note) == [kind |-> "files", files |-> found, msg |-> note]

\* DropboxService.search_files catches an ApiError of the personal search: it
\* logs it and returns [], whatever it had found
ApiErrorSwallowed(found, note) == [kind |-> "files", files |-> <<>>, msg |-> note]

\* search_files (search_google_drive_files) of a service raises
Raised(msg) == [kind |-> "raise", files |-> <<>>, msg |-> msg]

\* the except branch reports the failure as an empty success
SearchOutcomeDropsError(p, ret) == FilesOutcome(ret.files, p)

\* _search_<provider>: the try branch tags and counts the files the service
\* returned, the except branch turns what it raised into an outcome
SearchOutcome(p, ret) ==
    IF ret.kind = "raise" THEN ErrorOutcome(ret.msg) ELSE FilesOutcome(ret.files, p)

\* the leg of provider p has ended: its service's search gave ret
Done(l, p, ret) ==
    [pc |-> "done", acc |-> NoAccount, files |-> <<>>, pages |-> 0, calls |-> l.calls,
     ret |-> ret, out |-> SearchOutcome(p, ret)]

\* a leg that goes on at pc after the call c of _ensure_valid_token
Ensured(l, c, pc) == [l EXCEPT !.pc = pc, !.calls = Append(@, c)]

\* search_all_providers is called
StartSearch(q, content) ==
    /\ req.pc = "idle"
    /\ call.pc = "idle"
    /\ req' = [pc |-> IF BlankQuery(q) THEN "done" ELSE "gather", query |-> q,
               lowered |-> IF BlankQuery(q) THEN <<>> ELSE Strip(Lower(q)),
               content |-> content, effects |-> {}]
    /\ result' = IF BlankQuery(q) THEN EmptyResult(q) ELSE NoResult
    /\ UNCHANGED <<chat, race, listing, conn, accounts, now, call, hist, leg>>

LegStep(p, pc) == req.pc = "gather" /\ leg[p].pc = pc

\* what a leg becomes once search_files has read the account acc and called
\* _ensure_valid_token on it: `missing` is the error of a user without account
AfterAccount(l, p, acc, missing, next) ==
    IF ~IsRow(acc) THEN Done(l, p, Raised(missing))
    ELSE LET c == PlainCall(accounts, p, acc, now)
         IN IF c.kind = "raise" THEN Done(Ensured(l, c, "done"), p, Raised(c.value))
            ELSE IF c.kind = "refresh" THEN [l EXCEPT !.pc = "refresh", !.acc = acc]
            ELSE Ensured(l, c, next)

\* _search_dropbox starts: DropboxService.search_files reads the account and
\* calls _ensure_valid_token
DropboxLegStart ==
    /\ LegStep("dropbox", "new")
    /\ leg' = [leg EXCEPT !["dropbox"] =
                AfterAccount(@, "dropbox", GetAccount(accounts, "u1", "dropbox"),
                             "Dropbox account not connected", "search")]
    /\ req' = [req EXCEPT !.effects = @ \cup {"account_read"}]
    /\ UNCHANGED <<chat, race, listing, conn, accounts, now, call, hist, result>>

\* the token endpoint answers the refresh of the Dropbox leg
DropboxLegRefreshed(resp) ==
    /\ LegStep("dropbox", "refresh")
    /\ accounts' = RefreshStore(accounts, "dropbox", leg["dropbox"].acc, resp, now)
    /\ LET c == RefreshCall(accounts, "dropbox", leg["dropbox"].acc, resp, now)
       IN leg' = [leg EXCEPT !["dropbox"] =
            IF c.kind = "raise" THEN Done(Ensured(@, c, "done"), "dropbox", Raised(c.value))
            ELSE [Ensured(@, c, "search") EXCEPT !.acc = NoAccount]]
    /\ req' = [req EXCEPT !.effects = @ \cup {"token_refresh"}]
    /\ UNCHANGED <<chat, race, listing, conn, now, call, hist, result>>

\* files_search_v2 answers one page of the personal search: an ApiError makes
\* search_files return [], any other exception leaves search_files
DropboxLegSearchPage(ans) ==
    /\ LegStep("dropbox", "search")
    /\ ans.kind = "page" /\ ans.more => leg["dropbox"].pages + 1 < MaxPages
    /\ leg' = [leg EXCEPT !["dropbox"] =
         CASE ans.kind = "api_error" ->
                Done(@, "dropbox",
                     ApiErrorSwallowed(@.files, IF @.pages = 0 THEN "ApiError on the first page"
                                                ELSE "ApiError on a later page"))
           [] ans.kind = "error" -> Done(@, "dropbox", Raised("dropbox search failed"))
           [] ans.kind = "page" ->
                [@ EXCEPT !.files = Extended(@, Len(ans.items), None),
                          !.pages = @ + 1,
                          !.pc = IF ans.more THEN "search" ELSE "team"]]
    /\ req' = [req EXCEPT !.effects = @ \cup {"provider_search"}]
    /\ UNCHANGED <<chat, race, listing, conn, accounts, now, call, hist, result>>

\* the team namespaces: an ApiError or AttributeError keeps what was found, any
\* other exception leaves search_files
DropboxLegTeam(ans) ==
    /\ LegStep("dropbox", "team")
    /\ ans.kind = "page" => ~ans.more
    /\ leg' = [leg EXCEPT !["dropbox"] =
         CASE ans.kind = "api_error" -> Done(@, "dropbox", Files(@.files))
           [] ans.kind = "error" -> Done(@, "dropbox", Raised("dropbox search failed"))
           [] ans.kind = "page" ->
                Done(@, "dropbox", Files(Extended(@.files, Len(ans.items), None)))]
    /\ req' = [req EXCEPT !.effects = @ \cup {"provider_search"}]
    /\ UNCHANGED <<chat, race, listing, conn, accounts, now, call, hist, result>>

\* _search_one_drive starts: OneDriveService.search_files reads the account and
\* calls _ensure_valid_token
OneDriveLegStart ==
    /\ LegStep("one_drive", "new")
    /\ leg' = [leg EXCEPT !["one_drive"] =
                AfterAccount(@, "one_drive", GetAccount(accounts, "u1", "one_drive"),
                             "OneDrive account not connected", "search")]
    /\ req' = [req EXCEPT !.effects = @ \cup {"account_read"}]
    /\ UNCHANGED <<chat, race, listing, conn, accounts, now, call, hist, result>>

\* one page of fetch_search on the personal drive: a non-200 answer ends the
\* personal search, an exception leaves search_files
OneDriveLegSearchPage(ans) ==
    /\ LegStep("one_drive", "search")
    /\ ans.kind = "page" /\ ans.more => leg["one_drive"].pages + 1 < MaxPages
    /\ leg' = [leg EXCEPT !["one_drive"] =
         CASE ans.kind = "api_error" -> [@ EXCEPT !.pc = "tenants"]
           [] ans.kind = "error" -> Done(@, "one_drive", Raised("one_drive search failed"))
           [] ans.kind = "page" ->
                [@ EXCEPT !.files = Extended(@, Len(Kept(ans.items, req.content)),
                                             "onedrive"),
                          !.pages = @ + 1,
                          !.pc = IF ans.more THEN "search" ELSE "tenants"]]
    /\ req' = [req EXCEPT !.effects = @ \cup {"provider_search"}]
    /\ UNCHANGED <<chat, race, listing, conn, accounts, now, call, hist, result>>

\* the end of search_files once the sites are known: fetch_search on the drive
\* of the site found, if any
SitesSearched(l, ans, content) ==
    CASE ans.kind \in {"no_site", "api_error"} -> Done(l, "one_drive", Files(l.files))
      [] ans.kind = "error" -> Done(l, "one_drive", Raised("one_drive search failed"))
      [] ans.kind = "page" ->
           Done(l, "one_drive",
                Files(Extended(l.files, Len(Kept(ans.items, content)), "onedrive")))

\* the rest of search_files: get_all_tenants reads the account and calls
\* _ensure_valid_token again, then lists the sites (its own failures are logged,
\* not raised), and fetch_search runs on the drive of the site found, if any
OneDriveLegTenants(ans) ==
    /\ LegStep("one_drive", "tenants")
    /\ ans.kind = "page" => ~ans.more
    /\ LET l == AfterAccount(leg["one_drive"], "one_drive",
                             GetAccount(accounts, "u1", "one_drive"),
                             "OneDrive account not connected", "sites")
       IN leg' = [leg EXCEPT !["one_drive"] =
                    IF l.pc = "done" THEN l ELSE SitesSearched(l, ans, req.content)]
    /\ req' = [req EXCEPT !.effects = @ \cup {"account_read", "provider_search"}]
    /\ UNCHANGED <<chat, race, listing, conn, accounts, now, call, hist, result>>

\* _search_google_drive: IntegrationService has no search_google_drive_files,
\* the attribute lookup raises inside the try
GoogleLegStart ==
    /\ LegStep("google_drive", "new")
    /\ leg' = [leg EXCEPT !["google_drive"] =
         Done(@, "google_drive", Raised("no attribute search_google_drive_files"))]
    /\ UNCHANGED <<chat, race, listing, conn, accounts, now, call, hist, req, result>>

\* asyncio.gather returns once the three legs have: the results are taken in
\* the order the coroutines were passed
Gather ==
    /\ req.pc = "gather"
    /\ \A p \in Providers : leg[p].pc = "done"
    /\ result' = Assemble(req.query, leg["dropbox"].out, leg["one_drive"].out,
                          leg["google_drive"].out)
    /\ req' = [req EXCEPT !.pc = "done"]
    /\ UNCHANGED <<chat, race, listing, conn, accounts, now, call, hist, leg>>

NoSite == [kind |-> "no_site", items |-> <<>>, more |-> FALSE]

\* the answers of a search endpoint to one page request
SearchAnswers ==
    [kind : {"page"}, items : PageItems, more : BOOLEAN]
    \cup {[kind |-> k, items |-> <<>>, more |-> FALSE] : k \in {"api_error", "error"}}

Next ==
    \/ Tick
    \/ \E q \in Queries, c \in BOOLEAN : StartSearch(q, c)
    \/ DropboxLegStart
    \/ \E resp \in TokenResponses : DropboxLegRefreshed(resp)
    \/ \E ans \in SearchAnswers : DropboxLegSearchPage(ans)
    \/ \E ans \in SearchAnswers : DropboxLegTeam(ans)
    \/ OneDriveLegStart
    \/ \E ans \in SearchAnswers : OneDriveLegSearchPage(ans)
    \/ \E ans \in SearchAnswers \cup {NoSite} : OneDriveLegTenants(ans)
    \/ GoogleLegStart
    \/ Gather

\* the searches of a user with several providers
Spec == Init /\ [][Next]_vars

NextToken ==
    \/ Next
    \/ \E p \in Providers : EnsureCallBegin(p)
    \/ \E resp \in TokenResponses : EnsureCallRefreshed(resp)

\* the searches and the other operations of a user, on each kind of account a
\* provider can have
SpecToken == InitToken /\ [][NextToken]_vars

\* ------------------------------------------------------ the connect operations

\* the arguments a connect is called with: an access token or an empty one, a
\* refresh token or none, an expiry or none, a user id or none
ConnectTokens == {"", "a2"}
ConnectRefreshTokens == {None, "r2"}
ConnectExpiries == {NoExpiry, 3}
ConnectUsers == Users \cup {None}

\* the tokens connect_account is called with: none (its defaults) or both
ConnectAccountTokens == {<<None, None>>, <<"a1", "r1">>}

\* a connect that has passed its first checks and awaits the provider's answer
PendingConnect(op, p, u, at, rt, ex) ==
    [op |-> op, provider |-> p, user_id |-> u, access_token |-> at,
     refresh_token |-> rt, expires_at |-> ex]

\* the sequence without its i-th element
Without(seq, i) == SubSeq(seq, 1, i - 1) \o SubSeq(seq, i + 1, Len(seq))

\* `if existing_account:` of connect_dropbox_with_tokens: every token column
\* takes the argument's value
DropboxConnectUpdate(row, r, t) ==
    [row EXCEPT !.access_token = r.access_token,
                !.refresh_token = r.refresh_token,
                !.expires_at = r.expires_at,
                !.provider_account_id = r.provider_account_id,
                !.extra_data = r.extra_data,
                !.updated_at = t]

\* `if existing_account:` of connect_one_drive_with_tokens: the refresh token
\* is not assigned
OneDriveConnectUpdate(row, r, t) ==
    [row EXCEPT !.access_token = r.access_token,
                !.expires_at = r.expires_at,
                !.provider_account_id = r.provider_account_id,
                !.extra_data = r.extra_data,
                !.updated_at = t]

\* `if existing_account:` of connect_google_drive_with_tokens and of
\* exchange_google_drive_code: `refresh_token or existing_account.refresh_token`
GoogleConnectUpdate(row, r, t) ==
    [row EXCEPT !.access_token = r.access_token,
                !.refresh_token = IF Falsy(r.refresh_token) THEN row.refresh_token
                                  ELSE r.refresh_token,
                !.expires_at = r.expires_at,
                !.provider_account_id = r.provider_account_id,
                !.extra_data = r.extra_data,
                !.updated_at = t]

ConnectUpdate(row, r, t) ==
    CASE r.provider = "dropbox" -> DropboxConnectUpdate(row, r, t)
      [] r.provider = "one_drive" -> OneDriveConnectUpdate(row, r, t)
      [] r.provider = "google_drive" -> GoogleConnectUpdate(row, r, t)

\* session.add(ExternalAccount(...)); session.commit(): a new row, with the
\* next primary key
Inserted(store, r) ==
    Append(store, [NewRow(Len(store) + 1, r.user_id, r.provider, r.access_token,
                          r.refresh_token, r.expires_at)
                     EXCEPT !.provider_account_id = r.provider_account_id,
                            !.extra_data = r.extra_data])

\* the select, `if existing_account:` and commit of a connect, where the
\* select's .first() gave the row at index i (0: no row)
Upserted(store, i, r, t) ==
    IF i = 0 THEN Inserted(store, r) ELSE [store EXCEPT ![i] = ConnectUpdate(@, r, t)]

\* the rows .first() of the select can give: without ORDER BY, any matching one
FirstOf(store, u, p) ==
    IF Matching(store, u, p) = {} THEN {0} ELSE Matching(store, u, p)

\* the answers to the user info request of a connect: the profile, a refusal
\* (the helper returns {}), an exception of the request
UserInfoAnswers == {"profile", "refused", "exception"}

\* _get_dropbox_user_info catches every exception and returns {};
\* _get_one_drive_user_info and _get_google_user_info let the request's pass
UserInfoRaises(p, info) == p # "dropbox" /\ info = "exception"

\* `provider_account_id = user_info.get(...)`: None when the helper returned {}
ProviderAccountId(info) == IF info = "profile" THEN "pid" ELSE None

\* `user_info.update(token_info)` or, for an empty user_info, token_info alone
ExtraData(info) == IF info = "profile" THEN "profile+token_info" ELSE "token_info"

\* the connect request with what the user info request gave
WithUserInfo(r, info) ==
    [provider_account_id |-> ProviderAccountId(info), extra_data |-> ExtraData(info)]
    @@ r

\* the last connect that ended: its arguments, the user info answer, what it
\* returned or raised, and the index of the row its select found (0: none)
ConnectEnded(r, info, out, j) ==
    [op |-> r.op, provider |-> r.provider, user_id |-> r.user_id,
     access_token |-> r.access_token, refresh_token |-> r.refresh_token,
     expires_at |-> r.expires_at, info |-> info, kind |-> out.kind,
     value |-> out.value, row |-> j]

\* the user id check is left out
UserIdNeverMissing(r) == FALSE

\* `if not user_id: raise ValueError("User ID is required")`
UserIdMissing(r) == Falsy(r.user_id)

\* connect_dropbox_with_tokens, connect_one_drive_with_tokens or
\* connect_google_drive_with_tokens is called: an empty access token raises
\* "Access token is required", else the user info request is sent
ConnectWithTokensBegin(p, u, at, rt, ex) ==
    /\ conn.called < MaxConnects
    /\ p = "one_drive" => rt = None
    /\ LET r == PendingConnect("tokens", p, u, at, rt, ex)
       IN conn' = IF Falsy(at)
                  THEN [conn EXCEPT !.called = @ + 1,
                                    !.last = ConnectEnded(r, None,
                                                 Raise("Access token is required"), 0)]
                  ELSE [conn EXCEPT !.called = @ + 1, !.pending = Append(@, r)]
    /\ UNCHANGED <<chat, race, accounts, now, call, hist, req, leg, result, listing>>

\* the user info request has ended: its exception leaves the connect (not for
\* Dropbox), a missing user id raises "User ID is required", else the account
\* is looked up and updated or created
ConnectWithTokensCommit(i, info) ==
    /\ i \in 1..Len(conn.pending)
    /\ conn.pending[i].op = "tokens"
    /\ LET r == conn.pending[i]
       IN \/ /\ UserInfoRaises(r.provider, info)
             /\ accounts' = accounts
             /\ conn' = [conn EXCEPT !.pending = Without(@, i),
                            !.last = ConnectEnded(r, info,
                                         Raise("user info request failed"), 0)]
          \/ /\ ~UserInfoRaises(r.provider, info)
             /\ UserIdMissing(r)
             /\ accounts' = accounts
             /\ conn' = [conn EXCEPT !.pending = Without(@, i),
                            !.last = ConnectEnded(r, info,
                                         Raise("User ID is required"), 0)]
          \/ /\ ~UserInfoRaises(r.provider, info)
             /\ ~UserIdMissing(r)
             /\ \E j \in FirstOf(accounts, r.user_id, r.provider) :
                  /\ accounts' = Upserted(accounts, j, WithUserInfo(r, info), now)
                  /\ conn' = [conn EXCEPT !.pending = Without(@, i),
                                 !.last = ConnectEnded(r, info, Return("account"), j)]
    /\ UNCHANGED <<chat, race, now, call, hist, req, leg, result, listing>>

\* exchange_google_drive_code is called: the code is sent to the token endpoint
ExchangeGoogleDriveCodeBegin(u) ==
    /\ conn.called < MaxConnects
    /\ conn' = [conn EXCEPT !.called = @ + 1,
                   !.pending = Append(@, PendingConnect("code", "google_drive", u, None,
                                                        None, NoExpiry))]
    /\ UNCHANGED <<chat, race, accounts, now, call, hist, req, leg, result, listing>>

\* the token endpoint has answered the code (a non-200 answer raises), then
\* the user info request has ended (its exception leaves the call): the
\* account is looked up and updated or created
ExchangeGoogleDriveCodeCommit(i, resp, info) ==
    /\ i \in 1..Len(conn.pending)
    /\ conn.pending[i].op = "code"
    /\ LET r == [conn.pending[i] EXCEPT
                    !.access_token = resp.access_token,
                    !.refresh_token = resp.refresh_token,
                    !.expires_at = now + (IF resp.expires_in = NoValue
                                          THEN GoogleDefaultExpiresIn
                                          ELSE resp.expires_in)]
       IN \/ /\ resp.status # 200
             /\ accounts' = accounts
             /\ conn' = [conn EXCEPT !.pending = Without(@, i),
                            !.last = ConnectEnded(conn.pending[i], None,
                                Raise("Failed to exchange authorization code"), 0)]
          \/ /\ resp.status = 200
             /\ UserInfoRaises(r.provider, info)
             /\ accounts' = accounts
             /\ conn' = [conn EXCEPT !.pending = Without(@, i),
                            !.last = ConnectEnded(r, info,
                                         Raise("user info request failed"), 0)]
          \/ /\ resp.status = 200
             /\ ~UserInfoRaises(r.provider, info)
             /\ \E j \in FirstOf(accounts, r.user_id, r.provider) :
                  /\ accounts' = Upserted(accounts, j, WithUserInfo(r, info), now)
                  /\ conn' = [conn EXCEPT !.pending = Without(@, i),
                                 !.last = ConnectEnded(r, info, Return("account"), j)]
    /\ UNCHANGED <<chat, race, now, call, hist, req, leg, result, listing>>

\* connect_account: a new row is added, whatever the table holds
ConnectAccount(u, p, at, rt) ==
    /\ conn.called < MaxConnects
    /\ accounts' = Inserted(accounts, [provider_account_id |-> None, extra_data |-> None]
                                      @@ PendingConnect("account", p, u, at, rt, NoExpiry))
    /\ conn' = [conn EXCEPT !.called = @ + 1,
                   !.last = ConnectEnded(PendingConnect("account", p, u, at, rt, NoExpiry),
                                         None, Return("account"), 0)]
    /\ UNCHANGED <<chat, race, now, call, hist, req, leg, result, listing>>

InitConnect == accounts = <<>> /\ Quiet

NextConnect ==
    \/ \E p \in Providers, u \in ConnectUsers, at \in ConnectTokens,
          rt \in ConnectRefreshTokens, ex \in ConnectExpiries :
            ConnectWithTokensBegin(p, u, at, rt, ex)
    \/ \E i \in 1..MaxConnects, info \in UserInfoAnswers : ConnectWithTokensCommit(i, info)
    \/ \E u \in Users : ExchangeGoogleDriveCodeBegin(u)
    \/ \E i \in 1..MaxConnects, resp \in TokenResponses, info \in UserInfoAnswers :
            ExchangeGoogleDriveCodeCommit(i, resp, info)
    \/ \E u \in Users, p \in Providers, tk \in ConnectAccountTokens :
            ConnectAccount(u, p, tk[1], tk[2])

\* the connect operations of a user, from an empty table
SpecConnect == InitConnect /\ [][NextConnect]_vars

\* ------------------------------------------------------ account store claims

\* C6: after any sequence and interleaving of connect operations there is at
\* most one ExternalAccount per (user_id, provider) pair.  Violated:
\* connect_account adds a row without looking for an existing one.
C6_OneAccountPerPair ==
    \A u \in Users, p \in Providers : Cardinality(Matching(accounts, u, p)) <= 1

\* a connect operation has ended in this step
ConnectJustEnded ==
    conn'.called - Len(conn'.pending) > conn.called - Len(conn.pending)

\* C16: a connect_*_with_tokens call for a pair that already has an account
\* overwrites access_token, expires_at, extra_data and updated_at of that row,
\* and overwrites its refresh_token only when the call provides one: without
\* one the stored refresh_token stays.  Violated: connect_dropbox_with_tokens
\* assigns the argument even when it is None.
C16_RefreshTokenKeptUnlessProvided ==
    [][(/\ ConnectJustEnded
        /\ conn'.last.op = "tokens"
        /\ conn'.last.kind = "return"
        /\ conn'.last.row # 0) =>
          /\ Len(accounts') = Len(accounts)
          /\ accounts'[conn'.last.row].id = accounts[conn'.last.row].id
          /\ accounts'[conn'.last.row].access_token = conn'.last.access_token
          /\ accounts'[conn'.last.row].expires_at = conn'.last.expires_at
          /\ accounts'[conn'.last.row].updated_at = now
          /\ accounts'[conn'.last.row].extra_data \in {"profile+token_info", "token_info"}
          /\ accounts'[conn'.last.row].refresh_token =
               IF Falsy(conn'.last.refresh_token)
               THEN accounts[conn'.last.row].refresh_token
               ELSE conn'.last.refresh_token]_vars

Searched == req.pc = "done" /\ \E i \in 1..Len(req.query) : req.query[i] \notin Whitespace

\* the request has returned its result for an empty or whitespace-only query
SearchedBlank == req.pc = "done" /\ \A i \in 1..Len(req.query) : req.query[i] \in Whitespace

\* the outcome carries the files fs, tagged with provider p, and no error
Carries(o, fs, p) ==
    /\ o.error = None
    /\ o.total = Len(fs)
    /\ Len(o.files) = Len(fs)
    /\ \A i \in 1..Len(fs) : o.files[i].id = fs[i].id /\ o.files[i].provider = p

\* C1: once the search has returned, a provider whose search raised has the
\* outcome {files: [], total: 0, error: <the message raised>}, and every
\* other provider's outcome carries exactly the files its own search returned,
\* with no error, whatever the other legs did.
C1_FailingLegIsolated ==
    Searched =>
        \A p \in Providers :
            /\ leg[p].ret.kind \in {"files", "raise"}
            /\ leg[p].ret.kind = "raise" =>
                 /\ result.results[p].files = <<>>
                 /\ result.results[p].total = 0
                 /\ result.results[p].error = leg[p].ret.msg
                 /\ result.results[p].error # None
            /\ leg[p].ret.kind = "files" =>
                 Carries(result.results[p], leg[p].ret.files, p)

\* C1 happens: one leg raised and another returned at least one file
C1_Witness ==
    /\ Searched
    /\ leg["dropbox"].ret.kind = "raise"
    /\ leg["google_drive"].ret.kind = "raise"
    /\ leg["one_drive"].ret.kind = "files"
    /\ result.results["one_drive"].total >= 1

\* the steps of the leg of provider p
LegNext(p) ==
    CASE p = "dropbox" ->
           \/ DropboxLegStart
           \/ \E resp \in TokenResponses : DropboxLegRefreshed(resp)
           \/ \E ans \in SearchAnswers : DropboxLegSearchPage(ans)
           \/ \E ans \in SearchAnswers : DropboxLegTeam(ans)
      [] p = "one_drive" ->
           \/ OneDriveLegStart
           \/ \E ans \in SearchAnswers : OneDriveLegSearchPage(ans)
           \/ \E ans \in SearchAnswers \cup {NoSite} : OneDriveLegTenants(ans)
      [] p = "google_drive" -> GoogleLegStart

\* C2: the three legs run concurrently and independently: while the gather
\* waits, every leg that has not ended can take its next step whatever state the
\* other legs are in (ended, failed or still running); a leg that has ended
\* holds the outcome of its own search while the others go on; and the result
\* puts each leg's outcome in that provider's own slot, in whatever order the
\* legs ended.
C2_ConcurrentFixedSlots ==
    /\ req.pc = "gather" =>
         \A p \in Providers :
            /\ leg[p].pc # "done" => ENABLED LegNext(p)
            /\ leg[p].pc = "done" =>
                 \/ leg[p].ret.kind = "raise" /\ leg[p].out.error = leg[p].ret.msg
                 \/ leg[p].ret.kind = "files" /\ Carries(leg[p].out, leg[p].ret.files, p)
    /\ Searched =>
         /\ DOMAIN result.results = Providers
         /\ \A p \in Providers : leg[p].pc = "done" /\ result.results[p] = leg[p].out

\* C2 happens: the Dropbox leg has ended in an error while the OneDrive leg,
\* started before it ended, is still searching with files already found
C2_Witness ==
    /\ req.pc = "gather"
    /\ leg["dropbox"].pc = "done" /\ leg["dropbox"].out.error # None
    /\ Len(leg["dropbox"].calls) >= 1
    /\ leg["one_drive"].pc = "tenants" /\ Len(leg["one_drive"].files) >= 1
    /\ leg["google_drive"].pc = "new"

\* C3: a search with an empty or whitespace-only query returns an empty
\* outcome for every provider and total_files 0, and has read no account,
\* refreshed no token and sent no provider search: no leg has started.
C3_BlankQueryShortCircuit ==
    (req.pc # "idle" /\ \A i \in 1..Len(req.query) : req.query[i] \in Whitespace) =>
        /\ req.pc = "done"
        /\ \A p \in Providers :
             result.results[p] = [files |-> <<>>, total |-> 0, error |-> None]
        /\ result.total_files = 0
        /\ result.query = req.query
        /\ req.effects = {}
        /\ \A p \in Providers : leg[p] = NewLeg

\* C3 happens: a whitespace-only query has been answered
C3_Witness == SearchedBlank /\ Len(req.query) >= 2

\* C4: in every result, total_files is the sum of the three providers'
\* totals, and each provider's total is the length of its files list.
C4_TotalsAddUp ==
    req.pc = "done" =>
        /\ result.total_files =
             result.results["dropbox"].total + result.results["one_drive"].total
               + result.results["google_drive"].total
        /\ \A p \in Providers : result.results[p].total = Len(result.results[p].files)

\* C4 happens: two providers have returned files
C4_Witness ==
    /\ Searched
    /\ result.results["dropbox"].total >= 1
    /\ result.results["one_drive"].total >= 1
    /\ result.total_files >= 2

\* the message of the ValueError a service raises for a user without account
NotConnectedMessage(p) ==
    CASE p = "dropbox" -> "Dropbox account not connected"
      [] p = "one_drive" -> "OneDrive account not connected"
      [] p = "google_drive" -> "Google Drive account not connected"

\* C5: when the user has no account for a provider, that provider's outcome is
\* {files: [], total: 0, error: '<Provider> account not connected'}.  Violated:
\* the Google Drive leg ends in the AttributeError of the missing
\* search_google_drive_files before any account is looked up.
C5_NotConnectedOutcome ==
    Searched =>
        \A p \in Providers :
            Matching(accounts, "u1", p) = {} =>
                result.results[p] =
                    [files |-> <<>>, total |-> 0, error |-> NotConnectedMessage(p)]

\* ------------------------------------------------------ token lifecycle claims

\* every finished call of _ensure_valid_token: those of the operations outside
\* the search and those of the legs
AllCalls ==
    {hist[i] : i \in 1..Len(hist)}
    \cup UNION {{leg[p].calls[i] : i \in 1..Len(leg[p].calls)} : p \in Providers}

\* the account a call was given has expires_at set and in the future
FutureExpiry(c) == c.pre.expires_at # NoExpiry /\ c.pre.expires_at > c.t

\* the account a call was given has expires_at set and not in the future
PastExpiry(c) == c.pre.expires_at # NoExpiry /\ c.pre.expires_at <= c.t

\* the token endpoint answered the call's refresh with a new access token
RefreshGranted(c) == c.resp.status = 200 /\ ~Falsy(c.resp.access_token)

\* C7 as stated: with expires_at set and in the future, _ensure_valid_token
\* returns the stored access_token unchanged, calls no token endpoint and
\* changes no field of the account.  Violated when the stored access_token is
\* missing: Dropbox returns "", Google Drive raises.
C7_ValidTokenReturned ==
    \A c \in AllCalls :
        FutureExpiry(c) =>
            /\ c.kind = "return" /\ c.value = c.pre.access_token
            /\ c.refreshCalls = 0
            /\ c.post = c.pre

\* C7 amended: with expires_at set and in the future, _ensure_valid_token of
\* every provider calls no token endpoint and changes no field of the stored
\* account, and when the stored access_token is not empty it returns it unchanged.
C7_ValidTokenNoRefresh ==
    \A c \in AllCalls :
        FutureExpiry(c) =>
            /\ c.refreshCalls = 0 /\ c.resp = NoResponse
            /\ c.post = c.pre
            /\ ~Falsy(c.pre.access_token) =>
                 c.kind = "return" /\ c.value = c.pre.access_token

\* C7 happens: a call on a token still valid has returned the stored token,
\* and a call on a valid expiry without stored token has ended too
C7_Witness ==
    /\ \E c \in AllCalls : FutureExpiry(c) /\ c.kind = "return" /\ c.value = "a1"
    /\ \E c \in AllCalls : FutureExpiry(c) /\ Falsy(c.pre.access_token)

C9_RefreshWheneverNotValid ==
    \A c \in AllCalls :
        (~FutureExpiry(c) /\ ~Falsy(c.pre.refresh_token)) =>
            /\ c.refreshCalls = 1
            /\ RefreshGranted(c) =>
                 /\ c.kind = "return" /\ c.value = c.resp.access_token
                 /\ c.post.access_token = c.resp.access_token
                 /\ c.post.expires_at # NoExpiry /\ c.post.expires_at > c.t

\* the call was given an expired account without refresh_token
ExpiredNoRefreshToken(c) == PastExpiry(c) /\ Falsy(c.pre.refresh_token)

\* C10: for each provider, a call on an expired account without refresh_token
\* raises, sends no request and leaves the stored account as it was; in a
\* search the leg ends there with {files: [], total: 0, error: <the message>},
\* the gather still returns, and the result carries that error in the
\* provider's slot.
C10_ExpiredWithoutRefreshToken ==
    /\ \A c \in AllCalls :
         ExpiredNoRefreshToken(c) =>
            /\ c.kind = "raise"
            /\ c.refreshCalls = 0 /\ c.resp = NoResponse
            /\ c.post = c.pre
    /\ \A p \in Providers : \A i \in 1..Len(leg[p].calls) :
         ExpiredNoRefreshToken(leg[p].calls[i]) =>
            /\ i = Len(leg[p].calls)
            /\ leg[p].pc = "done"
            /\ leg[p].out = [files |-> <<>>, total |-> 0, error |-> leg[p].calls[i].value]
            /\ req.pc \in {"gather", "done"}
            /\ (req.pc = "gather" /\ \A q \in Providers : leg[q].pc = "done") =>
                 ENABLED Gather
            /\ req.pc = "done" => result.results[p] = leg[p].out

\* C10 happens: a search has returned with the error of such a call in the
\* provider's slot
C10_Witness ==
    /\ Searched
    /\ \E p \in Providers : \E i \in 1..Len(leg[p].calls) :
         /\ ExpiredNoRefreshToken(leg[p].calls[i])
         /\ result.results[p].error = leg[p].calls[i].value

\* ------------------------------------------------------ provider search claims

\* C13: for a non-blank query, when the user's Google Drive account is
\* connected with a valid token, the google_drive outcome has error None and
\* carries the files of Google Drive's search.  Violated: the leg ends in the
\* AttributeError of the missing search_google_drive_files.
C13_GoogleDriveSearched ==
    (/\ Searched
     /\ \E i \in Matching(accounts, "u1", "google_drive") :
           /\ ~Falsy(accounts[i].access_token)
           /\ accounts[i].expires_at # NoExpiry /\ accounts[i].expires_at > now) =>
        /\ result.results["google_drive"].error = None
        /\ result.results["google_drive"].total = Len(result.results["google_drive"].files)

\* the Dropbox search API has rejected a page of the personal search
DropboxSearchRejected ==
    /\ leg["dropbox"].pc = "done"
    /\ leg["dropbox"].ret.msg \in {"ApiError on the first page", "ApiError on a later page"}

\* C20: when the Dropbox search API rejects a page of the personal search
\* with an ApiError, on the first page or on a later one, search_files returns
\* an empty list without raising, and the Dropbox outcome of the search is
\* {files: [], total: 0, error: None}.
C20_DropboxApiErrorEmpty ==
    DropboxSearchRejected =>
        /\ leg["dropbox"].ret.kind = "files"
        /\ leg["dropbox"].ret.files = <<>>
        /\ leg["dropbox"].out = [files |-> <<>>, total |-> 0, error |-> None]
        /\ Searched =>
             result.results["dropbox"] = [files |-> <<>>, total |-> 0, error |-> None]

\* C20 happens: the search has returned after an ApiError on a later page
C20_Witness ==
    /\ Searched
    /\ leg["dropbox"].ret.msg = "ApiError on a later page"
    /\ result.results["dropbox"].files = <<>>

\* ------------------------------------------------------ OneDrive token claims

\* C18: OneDrive _ensure_valid_token on an account without access token,
\* expiry and refresh token raises 'No access token available'.  Violated:
\* the refresh token is tested first and 'No refresh token available' is raised.
C18_OneDriveNoAccessToken ==
    \A c \in AllCalls :
        (/\ c.provider = "one_drive"
         /\ Falsy(c.pre.access_token)
         /\ c.pre.expires_at = NoExpiry
         /\ Falsy(c.pre.refresh_token)) =>
            c.kind = "raise" /\ c.value = "No access token available"

\* C19: OneDrive _ensure_valid_token never returns a token for an account
\* whose expires_at is not in the future, whether or not a refresh token is
\* stored.  Violated: with a refresh token and an access token stored, the
\* stored access token is returned.
C19_OneDriveExpiredAlwaysFails ==
    \A c \in AllCalls :
        (c.provider = "one_drive" /\ ~FutureExpiry(c)) => c.kind = "raise"

\* ------------------------------------------------------ the file listings

\* the listing operations a controller calls on its service
ListOps ==
    {"get_all_files_with_namespaces", "get_files_for_namespace",
     "get_all_files_with_tenants", "get_files_for_tenant"}

\* the operations that list one namespace or tenant
DirectOps == {"get_files_for_namespace", "get_files_for_tenant"}

ProviderOf(op) ==
    IF op \in {"get_all_files_with_tenants", "get_files_for_tenant"}
    THEN "one_drive" ELSE "dropbox"

\* account_id of the Dropbox account the token belongs to
CurrentAccountId == "acct"

Namespace(id, type) == [id |-> id, type |-> type]

\* what get_all_namespaces can return: the personal namespace unless
\* users_get_current_account failed, the team namespaces unless
\* team_namespaces_list failed
DropboxNamespaceLists ==
    {<<>>, <<Namespace(CurrentAccountId, "personal")>>, <<Namespace("ns1", "team")>>,
     <<Namespace(CurrentAccountId, "personal"), Namespace("ns1", "team")>>}

\* the entry of a namespace or tenant whose listing returned files; `log` is
\* what the listing logged on its way, if anything
OkEntry(ns, files, log) ==
    [namespace |-> ns, files |-> files, file_count |-> Len(files), error |-> None,
     log |-> log]

\* the entry of a namespace or tenant whose listing raised
ErrorEntry(ns, msg) ==
    [namespace |-> ns, files |-> <<>>, file_count |-> 0, error |-> msg, log |-> msg]

AddEntry(l, e) ==
    [l EXCEPT !.entries = Append(@, e), !.total_files = @ + e.file_count]

\* the service has raised: the controller's except branch answers with _error
ServiceRaised(l, msg) ==
    [l EXCEPT !.pc = "done", !.ret = Raised(msg), !.response = "error"]

\* the service has returned: the controller answers with _success
ServiceReturned(l, files) ==
    [l EXCEPT !.pc = "done", !.ret = Files(files), !.response = "success"]

\* the namespace id is never compared: every namespace is taken for a team one
NamespaceTypeAlwaysTeam(id, lookup) == "team"

\* `if namespace_id == account_obj.account_id`, and the except branch that
\* defaults to team
NamespaceType(id, lookup) ==
    IF lookup = "failed" THEN "team"
    ELSE IF id = lookup THEN "personal" ELSE "team"

\* the Dropbox client of a listing: its path-root header, None for a plain client
ClientFor(type, id) == IF type = "personal" THEN None ELSE id

\* `site_id == "personal" or site_id.startswith("drive-")`
UsesMeDrive(site_id) == site_id \in {"personal", "drive-1"}

\* base_url of get_files_for_tenant: /me/drive, or /sites/{site_id}/drive,
\* which is written as its site_id
BaseUrl(site_id) == IF UsesMeDrive(site_id) THEN "me/drive" ELSE site_id

\* one running get_files_recursive: its folder (the path of the folder item,
\* <<>> for root), the items of the folder seen so far, the items of the
\* current page not yet looked at, and whether that page has a nextLink
Frame(folder) == [folder |-> folder, n |-> 0, rest |-> <<>>, more |-> FALSE]

\* get_files_for_namespace / get_files_for_tenant has a token: its first
\* request is sent
Listing(l) ==
    IF ProviderOf(l.op) = "one_drive"
    THEN [l EXCEPT !.pc = "walk", !.client = BaseUrl(l.cur.id), !.requests = @ + 1,
                   !.stack = <<Frame(<<>>)>>]
    ELSE IF l.op = "get_files_for_namespace" /\ l.cur.type = None
    THEN [l EXCEPT !.pc = "type"]
    ELSE [l EXCEPT !.pc = "page",
                   !.client = ClientFor(l.cur.type, l.cur.id),
                   !.clients = <<ClientFor(l.cur.type, l.cur.id)>>]

\* the loop of get_all_files_with_namespaces / get_all_files_with_tenants from
\* its next namespace on, up to the next request sent: a namespace without id
\* is skipped, a get_files_for_* that raises before its first request leaves
\* an error entry
RECURSIVE NextNamespace(_, _, _)
NextNamespace(l, store, t) ==
    IF l.todo = <<>> THEN ServiceReturned(l, <<>>)
    ELSE LET ns == Head(l.todo)
             l1 == [l EXCEPT !.todo = Tail(@), !.cur = ns, !.phase = "namespace",
                             !.files = <<>>, !.served = <<>>, !.clients = <<>>,
                             !.continues = 0, !.stack = <<>>,
                             !.client = None, !.acc = NoAccount, !.log = None]
             acc == GetAccount(store, "u1", ProviderOf(l.op))
             c == EnsureValidToken(ProviderOf(l.op), acc, t)
         IN IF Falsy(ns.id) THEN NextNamespace([l EXCEPT !.todo = Tail(@)], store, t)
            ELSE IF ~IsRow(acc)
            THEN NextNamespace(AddEntry(l1, ErrorEntry(ns, NotConnectedMessage(ProviderOf(l.op)))),
                               store, t)
            ELSE IF c.kind = "raise"
            THEN NextNamespace(AddEntry(l1, ErrorEntry(ns, c.value)), store, t)
            ELSE IF c.kind = "refresh" THEN [l1 EXCEPT !.pc = "refresh", !.acc = acc]
            ELSE Listing(l1)

\* the running get_all_namespaces, get_all_tenants or get_files_for_* raises
\* msg: inside the loop's try it leaves an error entry, elsewhere it leaves
\* the service
ListRaised(l, msg, store, t) ==
    IF l.phase = "namespace" /\ l.op \notin DirectOps
    THEN NextNamespace(AddEntry(l, ErrorEntry(l.cur, msg)), store, t)
    ELSE ServiceRaised(l, msg)

\* the running get_files_for_* returns files
ListReturned(l, files, log, store, t) ==
    IF l.op \in DirectOps
    THEN [ServiceReturned(l, files) EXCEPT !.log = log]
    ELSE NextNamespace(AddEntry(l, OkEntry(l.cur, files, log)), store, t)

\* the operation's first call (get_all_namespaces, get_all_tenants or
\* get_files_for_namespace) reads the account and calls _ensure_valid_token
Entered(l, store, t) ==
    LET p == ProviderOf(l.op)
        acc == GetAccount(store, "u1", p)
        c == EnsureValidToken(p, acc, t)
    IN IF ~IsRow(acc) THEN ServiceRaised(l, NotConnectedMessage(p))
       ELSE IF c.kind = "raise" THEN ServiceRaised(l, c.value)
       ELSE IF c.kind = "refresh" THEN [l EXCEPT !.pc = "refresh", !.acc = acc]
       ELSE IF l.phase = "enumerate" THEN [l EXCEPT !.pc = "enumerate"]
       ELSE Listing(l)

\* a listing operation of a service is called: by its controller, or
\* get_files_for_namespace with a namespace_type by another caller
ListStart(op, id, type) ==
    /\ listing.pc = "idle"
    /\ op \notin DirectOps => id = None /\ type = None
    /\ op = "get_files_for_namespace" => id \in {CurrentAccountId, "ns1"}
    /\ op = "get_files_for_tenant" => id \in {"personal", "site1"} /\ type = None
    /\ listing' = Entered([NoListing EXCEPT
                              !.op = op,
                              !.phase = IF op \in DirectOps
                                        THEN "namespace" ELSE "enumerate",
                              !.cur = Namespace(id, type)],
                          accounts, now)
    /\ UNCHANGED <<chat, race, accounts, now, call, hist, req, leg, result, conn>>

\* the token endpoint answers the refresh of the listing's _ensure_valid_token
ListRefreshed(resp) ==
    /\ listing.pc = "refresh"
    /\ LET p == ProviderOf(listing.op)
           store == RefreshStore(accounts, p, listing.acc, resp, now)
           out == AfterRefresh(p, listing.acc, resp, now)
           l == [listing EXCEPT !.acc = NoAccount]
       IN /\ accounts' = store
          /\ listing' = IF out.kind = "raise" THEN ListRaised(l, out.value, store, now)
                        ELSE IF l.phase = "enumerate" THEN [l EXCEPT !.pc = "enumerate"]
                        ELSE Listing(l)
    /\ UNCHANGED <<chat, race, now, call, hist, req, leg, result, conn>>

\* get_all_namespaces returns what users_get_current_account and
\* team_namespaces_list gave (their failures are logged, not raised), and the
\* loop over the namespaces starts
DropboxEnumerated(nss) ==
    /\ listing.pc = "enumerate"
    /\ listing.op = "get_all_files_with_namespaces"
    /\ listing' = NextNamespace([listing EXCEPT !.todo = nss], accounts, now)
    /\ UNCHANGED <<chat, race, accounts, now, call, hist, req, leg, result, conn>>

\* users_get_current_account answers get_files_for_namespace, called without
\* namespace_type: the type is settled and the client built, once
DropboxTypeResolved(lookup) ==
    /\ listing.pc = "type"
    /\ LET type == NamespaceType(listing.cur.id, lookup)
       IN listing' = [listing EXCEPT
                         !.pc = "page",
                         !.lookup = lookup,
                         !.cur = Namespace(@.id, type),
                         !.client = ClientFor(type, listing.cur.id),
                         !.clients = <<ClientFor(type, listing.cur.id)>>]
    /\ UNCHANGED <<chat, race, accounts, now, call, hist, req, leg, result, conn>>

\* the answers to files_list_folder and files_list_folder_continue
ListAnswers ==
    [kind : {"page"}, size : {0, 2}, more : BOOLEAN]
    \cup {[kind |-> k, size |-> 0, more |-> FALSE] : k \in {"api_error", "error"}}

\* the entries of the next page the provider serves, numbered as served
PageEntries(served, size) ==
    LET n == Len(served) IN [k \in 1..size |-> 10 * (n + 1) + k]

\* the entries of a continuation page replace what was gathered
ProcessedLastPage(files, entries) == entries

\* process_entries: every entry of the page is appended to all_files
Processed(files, entries) == files \o entries

\* files_list_folder or files_list_folder_continue answers: a page is
\* processed and, while has_more, the cursor followed; an ApiError makes
\* get_files_for_namespace return [], any other exception leaves it
DropboxListPage(ans) ==
    /\ listing.pc = "page"
    /\ ans.kind = "page" /\ ans.more => Len(listing.served) + 1 < MaxListPages
    /\ LET entries == PageEntries(listing.served, ans.size)
           l == [listing EXCEPT !.files = Processed(@, entries),
                                !.served = Append(@, entries)]
       IN listing' =
            CASE ans.kind = "api_error" ->
                   ListReturned(listing, <<>>, "ApiError", accounts, now)
              [] ans.kind = "error" ->
                   ListRaised(listing, "dropbox list failed", accounts, now)
              [] ans.kind = "page" /\ ans.more ->
                   [l EXCEPT !.continues = @ + 1, !.clients = Append(@, l.client)]
              [] ans.kind = "page" /\ ~ans.more ->
                   ListReturned(l, l.files, None, accounts, now)
    /\ UNCHANGED <<chat, race, accounts, now, call, hist, req, leg, result, conn>>

\* what get_all_tenants can return: the personal drive unless /me/drive
\* failed (a drive answered without id is kept, and skipped by the loop), the
\* sites unless the site search failed. tenant_id is the drive's id for the
\* personal drive and the site's id otherwise: the tenant's own id either way
OneDriveTenantLists ==
    {<<>>, <<Namespace("drive-1", "personal")>>, <<Namespace("b!1", "personal")>>,
     <<Namespace("site1", "sharepoint")>>,
     <<Namespace(None, "personal"), Namespace("site1", "sharepoint")>>,
     <<Namespace("b!1", "personal"), Namespace("site1", "sharepoint")>>}

\* get_all_tenants returns, and the loop over the tenants starts
OneDriveEnumerated(tenants) ==
    /\ listing.pc = "enumerate"
    /\ listing.op = "get_all_files_with_tenants"
    /\ listing' = NextNamespace([listing EXCEPT !.todo = tenants], accounts, now)
    /\ UNCHANGED <<chat, race, accounts, now, call, hist, req, leg, result, conn>>

\* the items of one page of children, in the provider's order
WalkPages ==
    {<<>>, <<"file">>, <<"folder">>, <<"folder", "file">>, <<"folder", "folder">>}

\* the answers to a children request of get_files_recursive: a page with or
\* without @odata.nextLink, a status other than 200, or an exception of the
\* client
WalkAnswers ==
    [kind : {"page"}, items : WalkPages, more : BOOLEAN]
    \cup {[kind |-> k, items |-> <<>>, more |-> FALSE] : k \in {"non200", "error"}}

Folders(items) == Cardinality({i \in 1..Len(items) : items[i] = "folder"})

\* the children requests the walk still has to send: one for each folder item
\* not yet looked at and one for each nextLink not yet followed
RECURSIVE Owed(_)
Owed(stack) ==
    IF stack = <<>> THEN 0
    ELSE Folders(Head(stack).rest) + (IF Head(stack).more THEN 1 ELSE 0)
         + Owed(Tail(stack))

\* the stack with its innermost frame changed to f
WithTop(stack, f) == [stack EXCEPT ![Len(stack)] = f]

\* every running get_files_recursive is abandoned
BrokenAll(stack) == <<>>

\* `break`: the while loop of the innermost get_files_recursive ends, and
\* with it that call
Broken(stack) == SubSeq(stack, 1, Len(stack) - 1)

\* a nextLink is followed before the items of its page are looked at
NextLinkFirst(f) == f.rest # <<>> /\ ~f.more

\* the for loop over the items of a page goes on before the nextLink is
\* looked at
ItemsFirst(f) == f.rest # <<>>

\* the walk from the innermost get_files_recursive on, up to its next request:
\* each item of the page is appended to all_files and a folder item is
\* walked at once; after the last item the nextLink is followed, and without
\* one the call returns to the loop of its caller; the outermost call returns
\* all_files
RECURSIVE Walked(_, _, _)
Walked(l, store, t) ==
    IF l.stack = <<>> THEN ListReturned(l, l.files, l.log, store, t)
    ELSE LET f == l.stack[Len(l.stack)]
             item == Append(f.folder, f.n + 1)
             seen == [l EXCEPT !.files = Append(@, item),
                               !.stack = WithTop(@, [f EXCEPT !.n = @ + 1,
                                                              !.rest = Tail(@)])]
         IN IF ItemsFirst(f)
            THEN IF Head(f.rest) = "folder"
                 THEN [seen EXCEPT !.stack = Append(@, Frame(item)),
                                   !.requests = @ + 1]
                 ELSE Walked(seen, store, t)
            ELSE IF f.more
            THEN [l EXCEPT !.stack = WithTop(@, [f EXCEPT !.more = FALSE]),
                           !.requests = @ + 1]
            ELSE Walked([l EXCEPT !.stack = SubSeq(@, 1, Len(@) - 1)], store, t)

\* one children request as the provider saw it: the folder, the items of the
\* folder served before, and the answer
Request(f, ans) ==
    [folder |-> f.folder, base |-> f.n, kind |-> ans.kind, items |-> ans.items,
     more |-> ans.more]

\* a children request of get_files_recursive answers: the walk goes on with
\* the page; a status other than 200 or an exception is logged and breaks the
\* loop of that folder
OneDriveWalkPage(ans) ==
    /\ listing.pc = "walk"
    /\ Folders(ans.items) > 0 \/ ans.more =>
         listing.requests + Owed(listing.stack) + Folders(ans.items)
           + (IF ans.more THEN 1 ELSE 0) =< MaxWalkRequests
    /\ LET f == listing.stack[Len(listing.stack)]
           l == [listing EXCEPT !.served = Append(@, Request(f, ans))]
       IN listing' =
            IF ans.kind = "page"
            THEN Walked([l EXCEPT !.stack = WithTop(@, [f EXCEPT !.rest = ans.items,
                                                                 !.more = ans.more])],
                        accounts, now)
            ELSE Walked([l EXCEPT !.stack = Broken(@), !.log = "failed to get files"],
                        accounts, now)
    /\ UNCHANGED <<chat, race, accounts, now, call, hist, req, leg, result, conn>>

\* user u1 has connected Dropbox, OneDrive, both or neither
InitList ==
    /\ \E d \in SearchRows(1, "u1", "dropbox") \cup {NoAccount},
          o \in SearchRows(2, "u1", "one_drive") \cup {NoAccount} :
            accounts = SelectSeq(<<d, o>>, IsRow)
    /\ Quiet

ListNamespaceIds == {None, CurrentAccountId, "ns1", "personal", "site1"}

ListNamespaceTypes == {None, "personal", "team"}

NextList ==
    \/ \E op \in ListOps, id \in ListNamespaceIds, type \in ListNamespaceTypes :
         ListStart(op, id, type)
    \/ \E resp \in TokenResponses : ListRefreshed(resp)
    \/ \E nss \in DropboxNamespaceLists : DropboxEnumerated(nss)
    \/ \E lookup \in {CurrentAccountId, "failed"} : DropboxTypeResolved(lookup)
    \/ \E ans \in ListAnswers : DropboxListPage(ans)
    \/ \E tenants \in OneDriveTenantLists : OneDriveEnumerated(tenants)
    \/ \E ans \in WalkAnswers : OneDriveWalkPage(ans)
    \/ Tick

SpecList == InitList /\ [][NextList]_vars

\* user u1 has connected OneDrive
InitWalk ==
    /\ \E o \in SearchRows(2, "u1", "one_drive") : accounts = <<o>>
    /\ Quiet

NextWalk ==
    \/ \E id \in {"personal", "site1"} : ListStart("get_files_for_tenant", id, None)
    \/ \E ans \in WalkAnswers : OneDriveWalkPage(ans)
    \/ Tick

\* the walks of get_files_for_tenant; the provider answers every children
\* request, if only by the client's timeout
SpecWalk ==
    InitWalk /\ [][NextWalk]_vars
      /\ WF_vars(\E ans \in WalkAnswers : OneDriveWalkPage(ans))

\* ------------------------------------------------------------ listing claims

\* the entries of the pages, page after page
RECURSIVE Flatten(_)
Flatten(pages) == IF pages = <<>> THEN <<>> ELSE Head(pages) \o Flatten(Tail(pages))

\* C14: Dropbox get_files_for_namespace follows the cursor to the last page:
\* while it lists, what it has gathered is every entry of the pages served so
\* far, in page order, and one continue call was made per page served; when it
\* returns a listing of k pages, the result is every entry of the k pages in
\* page order and files_list_folder_continue was called k-1 times.
C14_CursorFollowed ==
    /\ listing.pc = "page" =>
         /\ listing.files = Flatten(listing.served)
         /\ listing.continues = Len(listing.served)
    /\ listing.op = "get_files_for_namespace" /\ listing.pc = "done"
         /\ listing.response = "success" /\ listing.log = None =>
         /\ listing.ret.files = Flatten(listing.served)
         /\ listing.continues = Len(listing.served) - 1

\* C14 happens: a listing of 3 pages of 2 entries has returned 6 records
\* after 2 continue calls
C14_Witness ==
    /\ listing.op = "get_files_for_namespace"
    /\ listing.pc = "done"
    /\ listing.log = None
    /\ Len(listing.served) = 3
    /\ \A i \in 1..3 : Len(listing.served[i]) = 2
    /\ Len(listing.ret.files) = 6
    /\ listing.continues = 2

\* get_files_for_namespace was called without namespace_type and has settled it
TypeLookedUp == listing.op = "get_files_for_namespace" /\ listing.lookup # None

\* the client of the listing matches the type, and every request used it
ClientByType ==
    /\ listing.client = (IF listing.cur.type = "personal" THEN None ELSE listing.cur.id)
    /\ \A i \in 1..Len(listing.clients) : listing.clients[i] = listing.client

\* C15 as stated: without namespace_type the namespace is personal exactly
\* when its id is the current account's account_id and team otherwise, and
\* the client chosen by that type serves every page.  Violated: when
\* users_get_current_account raises, the account's own namespace is listed as
\* a team namespace, with the path-root header.
C15_TypeByAccountId ==
    TypeLookedUp =>
        /\ listing.cur.type =
             (IF listing.cur.id = CurrentAccountId THEN "personal" ELSE "team")
        /\ ClientByType

\* C15, amended: without namespace_type the namespace is personal exactly
\* when users_get_current_account answers and the namespace id is its
\* account_id, and team otherwise, the lookup raising included; a personal
\* namespace is listed by a client without path-root header, a team one by a
\* client with the namespace's path-root header, the same for every page.
C15_TypeByAccountIdWhenAnswered ==
    TypeLookedUp =>
        /\ listing.cur.type =
             (IF listing.lookup # "failed" /\ listing.cur.id = CurrentAccountId
              THEN "personal" ELSE "team")
        /\ ClientByType

\* C15 happens: the account's own namespace, its type looked up, has been
\* listed page after page without path-root header
C15_Witness ==
    /\ TypeLookedUp
    /\ listing.pc = "done"
    /\ listing.lookup = CurrentAccountId
    /\ listing.cur.id = CurrentAccountId
    /\ listing.cur.type = "personal"
    /\ Len(listing.clients) >= 2

\* C11: get_all_files_with_namespaces and get_all_files_with_tenants always
\* end in a structured success, whatever failed at the provider: nothing is
\* raised to the controller and the response is never an error response.
\* Violated: get_all_namespaces and get_all_tenants are called outside the
\* try, so a missing account or a token that cannot be used raises through
\* the service and the controller answers with _error.
C11_ListAlwaysSucceeds ==
    listing.pc = "done"
      /\ listing.op \in {"get_all_files_with_namespaces", "get_all_files_with_tenants"} =>
        /\ listing.ret.kind = "files"
        /\ listing.response = "success"

\* C12: a namespace or tenant whose listing failed is in the result with
\* files empty, file_count 0 and an error string.  Violated: an ApiError of
\* files_list_folder, and a failed children request of the OneDrive walk, are
\* logged inside get_files_for_*, which returns normally, so the entry carries
\* no error (and, for OneDrive, the files found before the failure).
C12_FailedNamespaceHasError ==
    \A i \in 1..Len(listing.entries) :
        listing.entries[i].log # None =>
            /\ listing.entries[i].files = <<>>
            /\ listing.entries[i].file_count = 0
            /\ listing.entries[i].error # None

\* ------------------------------------------------------- OneDrive walk claims

\* the items of a children request, as paths
ItemsOf(r) == {Append(r.folder, r.base + k) : k \in 1..Len(r.items)}

Listed(files) == {files[i] : i \in 1..Len(files)}

\* get_files_for_tenant had a token, has walked and is over
TenantWalked ==
    /\ listing.op = "get_files_for_tenant"
    /\ listing.pc = "done"
    /\ listing.served # <<>>

FailedRequests ==
    {i \in 1..Len(listing.served) : listing.served[i].kind # "page"}

\* C24: a failed children request of get_files_for_tenant abandons only the
\* folder it was for: the call still returns, without raising, every item the
\* provider served before and after the failure; every folder item served
\* was itself requested and every nextLink served was followed, unless it
\* belongs to the failed request; and no further request is made for a folder
\* whose request failed.
C24_FailedFolderOnly ==
    TenantWalked =>
        /\ listing.response = "success"
        /\ listing.ret.kind = "files"
        /\ \A i \in 1..Len(listing.served) :
             LET r == listing.served[i]
             IN /\ ItemsOf(r) \subseteq Listed(listing.ret.files)
                /\ \A k \in 1..Len(r.items) :
                     r.items[k] = "folder" =>
                        \E j \in 1..Len(listing.served) :
                            listing.served[j].folder = Append(r.folder, r.base + k)
                /\ r.more =>
                     \E j \in 1..Len(listing.served) :
                        /\ listing.served[j].folder = r.folder
                        /\ listing.served[j].base = r.base + Len(r.items)
                /\ r.kind # "page" =>
                     \A j \in (i + 1)..Len(listing.served) :
                        listing.served[j].folder # r.folder

\* C24 happens: the request for a subfolder failed, and the walk went on to
\* list the folder's sibling and to follow the nextLink of root
C24_Witness ==
    /\ TenantWalked
    /\ \E i \in FailedRequests :
         /\ listing.served[i].folder # <<>>
         /\ \E j \in (i + 1)..Len(listing.served) :
              listing.served[j].folder = <<>> /\ listing.served[j].kind = "page"
         /\ \E k \in 1..Len(listing.ret.files) :
              /\ Len(listing.ret.files[k]) = 1
              /\ listing.ret.files[k][1] > listing.served[i].folder[1]

\* path a comes before path b in depth-first pre-order: a is an ancestor of
\* b, or a is or lies under an earlier sibling
PathBefore(a, b) ==
    LET m == IF Len(a) < Len(b) THEN Len(a) ELSE Len(b)
        differ == {k \in 1..m : a[k] # b[k]}
    IN IF differ = {} THEN Len(a) < Len(b)
       ELSE LET k == CHOOSE d \in differ : \A e \in differ : d =< e
            IN a[k] < b[k]

PreOrder(files) ==
    \A i, j \in 1..Len(files) : i < j => PathBefore(files[i], files[j])

\* the items of all the pages served
RECURSIVE ItemsServed(_)
ItemsServed(served) ==
    IF served = <<>> THEN 0 ELSE Len(Head(served).items) + ItemsServed(Tail(served))

\* C25: get_files_for_tenant lists in depth-first pre-order: while it walks
\* and when it returns, every item comes after its folder and before the
\* folder's next sibling, siblings in the order served; a walk on which no
\* request failed returns every item served exactly once; and the walk of a
\* finite tree ends.
C25_DepthFirstPreOrder ==
    /\ [](/\ listing.pc = "walk" => PreOrder(listing.files)
          /\ TenantWalked =>
               /\ PreOrder(listing.ret.files)
               /\ FailedRequests = {} =>
                    Len(listing.ret.files) = ItemsServed(listing.served))
    /\ (listing.pc = "walk" ~> listing.pc = "done")

\* C25 happens: a folder with a child, followed by its sibling on the same
\* page and an item of root's next page, has been listed in that order
C25_Witness ==
    /\ TenantWalked
    /\ FailedRequests = {}
    /\ listing.ret.files = <<<<1>>, <<1, 1>>, <<2>>, <<3>>>>

\* C30: in get_all_files_with_tenants the personal tenant is listed through
\* /me/drive whatever its drive id, and a site through /sites/{id}/drive.
\* Violated: the personal tenant is passed by its drive id, and
\* get_files_for_tenant takes an id that is not 'personal' and does not start
\* with 'drive-' for a site id.
C30_PersonalThroughMeDrive ==
    listing.op = "get_all_files_with_tenants" /\ listing.pc = "walk" =>
        listing.client = (IF listing.cur.type = "personal" THEN "me/drive"
                          ELSE listing.cur.id)

\* C23: the namespaces (tenants) are listed concurrently: no answer of one
\* namespace's listing is awaited while another enumerated namespace has not
\* been started.  Violated: the loop awaits each get_files_for_* to its end
\* before it starts the next.
C23_NamespacesConcurrent ==
    listing.op \in {"get_all_files_with_namespaces", "get_all_files_with_tenants"}
      /\ listing.pc \in {"page", "walk"} =>
        listing.todo = <<>>

\* ------------------------------------------------------- refresh claims

\* the token columns of a row
Tokens(row) ==
    [access_token |-> row.access_token, refresh_token |-> row.refresh_token,
     expires_at |-> row.expires_at]

\* C26: after a refresh that the endpoint granted, the stored refresh_token
\* is the rotated one when the answer carried one and the old one otherwise,
\* for Dropbox and for Google Drive.  Violated: refresh_google_drive_token
\* never assigns refresh_token, so a rotated Google refresh token is dropped.
C26_RotatedRefreshTokenStored ==
    \A c \in AllCalls :
        (c.refreshCalls = 1 /\ c.resp.status = 200 /\ ~Falsy(c.resp.access_token)) =>
            c.post.refresh_token =
                (IF Falsy(c.resp.refresh_token) THEN c.pre.refresh_token
                 ELSE c.resp.refresh_token)

\* C28: a call of _ensure_valid_token that returns, returns a non-empty
\* access token.  Violated: a Dropbox refresh answered without access_token
\* stores no token with an expiry in the future, and the next call returns ''.
C28_ReturnedTokenNonEmpty ==
    \A c \in AllCalls : c.kind = "return" => ~Falsy(c.value)

\* C29: a call of _ensure_valid_token whose refresh the endpoint refused
\* (a status other than 200) or whose refresh request raised ends in an error,
\* and the stored access_token, refresh_token and expires_at are those the
\* account had before the call.
C29_FailedRefreshLeavesAccount ==
    \A c \in AllCalls :
        (c.refreshCalls = 1 /\ c.resp.status # 200) =>
            /\ c.kind = "raise"
            /\ Tokens(c.post) = Tokens(c.pre)

\* C29 happens: a refresh has been refused and the request of another has
\* raised
C29_Witness ==
    /\ \E c \in AllCalls : c.refreshCalls = 1 /\ c.resp.status = 400
    /\ \E c \in AllCalls : c.refreshCalls = 1 /\ c.resp.status = 0

\* ----------------------------------------- two requests on the same account

\* request i (an endpoint of the provider's service) has read the account and
\* calls _ensure_valid_token: it returns or raises at once, or sends the
\* refresh request and awaits the answer
RaceBegin(i) ==
    /\ race.reqs[i].pc = "new"
    /\ LET p == accounts[1].provider
           acc == GetAccount(accounts, "u1", p)
       IN race' = [race EXCEPT !.reqs[i] =
            IF EnsureValidToken(p, acc, now).kind = "refresh"
            THEN [pc |-> "refresh", acc |-> acc, ended |-> NoCall]
            ELSE [pc |-> "done", acc |-> NoAccount,
                  ended |-> PlainCall(accounts, p, acc, now)]]
    /\ UNCHANGED <<chat, listing, conn, accounts, now, call, hist, req, leg, result>>

\* the token endpoint answers the refresh of request i: on a 200 answer the
\* account object the request holds is updated and committed
RaceRefreshed(i, resp) ==
    /\ race.reqs[i].pc = "refresh"
    /\ LET p == accounts[1].provider
           acc == race.reqs[i].acc
       IN /\ accounts' = RefreshStore(accounts, p, acc, resp, now)
          /\ race' = [race EXCEPT
                !.reqs[i] = [pc |-> "done", acc |-> NoAccount,
                             ended |-> RefreshCall(accounts, p, acc, resp, now)],
                !.commits = IF resp.status = 200 THEN Append(@, i) ELSE @]
    /\ UNCHANGED <<chat, listing, conn, now, call, hist, req, leg, result>>

\* user u1 has connected Dropbox or Google Drive, in any of the ways there are
InitRace ==
    /\ \E p \in {"dropbox", "google_drive"} :
         \E r \in ConnectedRows(1, "u1", p) : accounts = <<r>>
    /\ Quiet

NextRace ==
    \/ \E i \in RaceRequests : RaceBegin(i)
    \/ \E i \in RaceRequests, resp \in TokenResponses : RaceRefreshed(i, resp)
    \/ Tick

\* two requests of one user on one account, interleaved at their awaits
SpecRace == InitRace /\ [][NextRace]_vars

\* ------------------------------------------------------------- race claims

\* the last request whose refresh was committed
LastCommitted == race.reqs[race.commits[Len(race.commits)]].ended

\* the hours the answer to call c grants its token
GrantedFor(c) ==
    IF c.resp.expires_in # NoValue THEN c.resp.expires_in
    ELSE IF c.provider = "dropbox" THEN DropboxDefaultExpiresIn
    ELSE GoogleDefaultExpiresIn

\* request i refreshed an account it had read expired, with a refresh token
RefreshedExpired(i) ==
    /\ race.reqs[i].pc = "done"
    /\ race.reqs[i].ended.refreshCalls = 1
    /\ race.reqs[i].ended.resp.status = 200
    /\ PastExpiry(race.reqs[i].ended)

\* C22: nothing serialises two _ensure_valid_token calls on one expired
\* account with a refresh token: while one awaits its refresh answer the
\* other is free to begin and to send its own; and once a refresh has been
\* committed, the stored access_token and expires_at are those written by
\* the request that committed last.
C22_LastWriterWins ==
    /\ \A i, j \in RaceRequests :
         (race.reqs[i].pc = "refresh" /\ race.reqs[j].pc = "new") =>
            /\ ENABLED RaceBegin(j)
            /\ EnsureValidToken(accounts[1].provider, GetAccount(accounts, "u1", accounts[1].provider),
                                now).kind = "refresh"
    /\ race.commits # <<>> =>
         /\ accounts[1].access_token = LastCommitted.resp.access_token
         /\ accounts[1].expires_at = LastCommitted.t + GrantedFor(LastCommitted)

\* C22 happens: both requests read the expired account, both refreshed, they
\* were granted different expiries, and the second to commit overwrote the
\* first
C22_Witness ==
    /\ \A i \in RaceRequests : RefreshedExpired(i)
    /\ race.reqs[1].ended.pre = race.reqs[2].ended.pre
    /\ race.commits = <<1, 2>>
    /\ race.reqs[1].ended.post.expires_at # race.reqs[2].ended.post.expires_at
    /\ accounts[1].expires_at = race.reqs[2].ended.post.expires_at

\* --------------------------------------------- the read path and the store

\* the accounts of another user
OtherRows ==
    <<NewRow(7, "u2", "dropbox", "b1", "r9", 1),
      NewRow(8, "u2", "google_drive", "b1", "r9", 1)>>

\* user u1 has connected any of the three providers, and so has user u2
InitRead ==
    /\ \E d \in SearchRows(1, "u1", "dropbox") \cup {NoAccount},
          o \in SearchRows(2, "u1", "one_drive") \cup {NoAccount},
          g \in {NewRow(3, "u1", "google_drive", "a1", "r1", 2), NoAccount} :
            accounts = SelectSeq(<<d, o, g>>, IsRow) \o OtherRows
    /\ Quiet

\* user u1 searches, or calls one listing operation
NextRead ==
    \/ listing.pc = "idle" /\ Next
    \/ req.pc = "idle" /\ NextList

SpecRead == InitRead /\ [][NextRead]_vars

\* the providers whose token refresh awaits its answer
Refreshing ==
    {p \in Providers : leg[p].pc = "refresh"}
    \cup (IF listing.pc = "refresh" THEN {ProviderOf(listing.op)} ELSE {})

\* C27: a step of search_all_providers or of a listing operation creates and
\* deletes no row and leaves id, user_id, provider, provider_account_id and
\* extra_data of every row as they are; a row it changes at all is the
\* calling user's row of a provider whose token refresh it was awaiting.
C27_OnlyRefreshWrites ==
    [][/\ Len(accounts') = Len(accounts)
       /\ \A i \in 1..Len(accounts) :
            /\ accounts'[i].id = accounts[i].id
            /\ accounts'[i].user_id = accounts[i].user_id
            /\ accounts'[i].provider = accounts[i].provider
            /\ accounts'[i].provider_account_id = accounts[i].provider_account_id
            /\ accounts'[i].extra_data = accounts[i].extra_data
            /\ accounts'[i] # accounts[i] =>
                 /\ accounts[i].user_id = "u1"
                 /\ accounts[i].provider \in Refreshing]_vars

\* C27 happens: a search has ended after the refresh of u1's Dropbox token
\* was written, next to a Dropbox row of u2
C27_Witness ==
    /\ req.pc = "done"
    /\ \E i \in 1..Len(accounts) :
         /\ accounts[i].user_id = "u1"
         /\ accounts[i].provider = "dropbox"
         /\ accounts[i].updated_at > 0
    /\ \E i \in 1..Len(accounts) :
         accounts[i].user_id = "u2" /\ accounts[i].provider = "dropbox"

\* ------------------------------------------------- the chat completion endpoint

\* request.model: two OpenAI models, another provider's model, a bare name
ChatModels == {"openai/gpt-4", "openai/gpt-3.5-turbo", "vendor/model", "mistral"}

\* OllamaService.default_model
OllamaDefaultModel == "llama3.2:1b"

\* the model the endpoint asks of Ollama for request.model
OllamaModelFor(model) ==
    CASE model = "openai/gpt-4" -> "llama3.2:3b"
      [] model = "openai/gpt-3.5-turbo" -> "llama3.2:1b"
      [] model = "vendor/model" -> None
      [] OTHER -> model

\* the endpoint falls back whatever the OpenRouter attempt gave
FallsBackAlways(attempt) == TRUE

\* the try around the OpenRouter attempt: anything but a completion that
\* fits ChatCompletionResponse ends in the except branch
FallsBack(attempt) == attempt # "completion"

\* the endpoint is done: the response, or the HTTPException, goes out
ChatEnded(c, status, by) ==
    [c EXCEPT !.pc = "done", !.status = status, !.served_by = by]

\* the OpenRouter attempt has ended: the response goes out, or the except
\* branch starts and ollama_service.is_available() sends its request
Attempted(c, attempt) ==
    IF FallsBack(attempt)
    THEN [c EXCEPT !.pc = "available", !.openrouter = attempt,
                   !.log = Append(@, "ollama_available")]
    ELSE ChatEnded([c EXCEPT !.openrouter = attempt], 200, "openrouter")

\* POST /chat/completions: openrouter_service.create_chat_completion raises
\* at once without API key, and sends its request otherwise
ChatStart(model) ==
    /\ chat.pc = "idle"
    /\ chat' = IF chat.key
               THEN [chat EXCEPT !.pc = "openrouter", !.model = model,
                                 !.log = Append(@, "openrouter")]
               ELSE Attempted([chat EXCEPT !.model = model], "no_key")
    /\ UNCHANGED <<accounts, now, call, hist, req, leg, result, conn, listing, race>>

\* the OpenRouter request ends: in a completion, in a 200 answer whose body
\* does not fit ChatCompletionResponse, in a status other than 200, or in a
\* timeout
OpenRouterAnswered(ans) ==
    /\ chat.pc = "openrouter"
    /\ chat' = Attempted(chat, ans)
    /\ UNCHANGED <<accounts, now, call, hist, req, leg, result, conn, listing, race>>

\* ollama_service.create_chat_completion starts: ensure_model_exists asks for
\* model, or for the default model when there is none
OllamaAsked(c, model) ==
    [c EXCEPT !.pc = "ensure",
              !.ollama_model = IF Falsy(model) THEN OllamaDefaultModel ELSE model,
              !.log = Append(@, "ollama_ensure")]

\* is_available answers: without Ollama the endpoint gives up with 503
OllamaAvailability(up) ==
    /\ chat.pc = "available"
    /\ chat' = IF up THEN OllamaAsked(chat, OllamaModelFor(chat.model))
               ELSE ChatEnded(chat, 503, None)
    /\ UNCHANGED <<accounts, now, call, hist, req, leg, result, conn, listing, race>>

\* ensure_model_exists answers: a model that is there or could be pulled is
\* used; otherwise the default model is tried, once
OllamaModelEnsured(there) ==
    /\ chat.pc = "ensure"
    /\ chat' =
         IF there THEN [chat EXCEPT !.pc = "generate", !.log = Append(@, "ollama_generate")]
         ELSE IF "ollama_ensure_default" \in {chat.log[i] : i \in 1..Len(chat.log)}
         THEN ChatEnded(chat, 500, None)
         ELSE [chat EXCEPT !.ollama_model = OllamaDefaultModel,
                           !.log = Append(@, "ollama_ensure_default")]
    /\ UNCHANGED <<accounts, now, call, hist, req, leg, result, conn, listing, race>>

\* /api/generate answers
OllamaAnswered(ok) ==
    /\ chat.pc = "generate"
    /\ chat' = IF ok THEN ChatEnded(chat, 200, "ollama") ELSE ChatEnded(chat, 500, None)
    /\ UNCHANGED <<accounts, now, call, hist, req, leg, result, conn, listing, race>>

\* the service runs with or without OPENROUTER_API_KEY
InitChat ==
    /\ accounts = <<>>
    /\ now = 1
    /\ call = IdleCall
    /\ hist = <<>>
    /\ req = IdleReq
    /\ leg = [p \in Providers |-> NewLeg]
    /\ result = NoResult
    /\ conn = NoConnects
    /\ listing = NoListing
    /\ race = NoRace
    /\ \E key \in BOOLEAN : chat = [NoChat EXCEPT !.key = key]

NextChat ==
    \/ \E model \in ChatModels : ChatStart(model)
    \/ \E ans \in {"completion", "unfit_body", "http_error", "timeout"} : OpenRouterAnswered(ans)
    \/ \E up \in BOOLEAN : OllamaAvailability(up)
    \/ \E there \in BOOLEAN : OllamaModelEnsured(there)
    \/ \E ok \in BOOLEAN : OllamaAnswered(ok)

SpecChat == InitChat /\ [][NextChat]_vars

\* the requests sent to Ollama, among the requests of the endpoint so far
OllamaRequests == {i \in 1..Len(chat.log) : chat.log[i] # "openrouter"}

\* the requests that belong to Ollama's completion call
OllamaCompletionRequests == {i \in OllamaRequests : chat.log[i] # "ollama_available"}

\* C21: the endpoint turns to OpenRouter first and to Ollama only after the
\* OpenRouter attempt has failed: a request to OpenRouter is the first request
\* of the endpoint, an attempt that succeeded leaves Ollama without any
\* request and serves the response, and an attempt that failed, without API
\* key too, is followed by the availability check before any request of
\* Ollama's completion call.
C21_OpenRouterThenOllama ==
    /\ \A i \in 1..Len(chat.log) : chat.log[i] = "openrouter" => i = 1
    /\ OllamaRequests # {} => chat.openrouter \notin {None, "completion"}
    /\ chat.openrouter = "completion" =>
         /\ OllamaRequests = {}
         /\ chat.pc = "done" /\ chat.status = 200 /\ chat.served_by = "openrouter"
    /\ chat.openrouter \notin {None, "completion"} =>
         /\ OllamaRequests # {}
         /\ \A i \in OllamaRequests : chat.log[i] = "ollama_available" <=> i = Len(chat.log) - Cardinality(OllamaRequests) + 1
         /\ \A i \in OllamaCompletionRequests :
              \E j \in OllamaRequests : j < i /\ chat.log[j] = "ollama_available"
    /\ chat.served_by = "ollama" => chat.openrouter \notin {None, "completion"}

\* without API key OpenRouter got no request, and Ollama served the
\* completion after its availability check
C21_Witness ==
    /\ chat.pc = "done"
    /\ ~chat.key
    /\ chat.openrouter = "no_key"
    /\ chat.served_by = "ollama"
    /\ chat.log = <<"ollama_available", "ollama_ensure", "ollama_generate">>

====
